---- MODULE Spec2Model ----
(***************************************************************************)
(* MatrixSubtractCalculator (mediapipe/calculators/core/                   *)
(* matrix_subtract_calculator.cc): one node of a dataflow graph that       *)
(* subtracts a side-packet matrix from a streamed matrix, or the other way *)
(* round, depending on the MINUEND / SUBTRAHEND tags of its two ports.     *)
(*                                                                         *)
(* The node's handlers GetContract, Open and Process are the actions.  The *)
(* graph engine that calls them is not part of the file: it appears as the *)
(* order of the handlers (pc), the delivery of one input packet per        *)
(* invocation (Deliver) and the stop of the run after a failed Process     *)
(* (EngineAfterProcess).                                                   *)
(***************************************************************************)
EXTENDS Integers, Sequences, FiniteSets, TLC

\* ------------------------------------------------------------- bounds
\* Largest number of entries of the input-stream and of the side-packet
\* collection of a node configuration.
MaxPorts == 2
\* Largest row and column count of a matrix.
MaxRows == 2
MaxCols == 2
\* Largest value of a constant-filled matrix.
MaxVal == 1
\* Largest timestamp of an input packet, and most invocations of Process.
MaxTs == 2
MaxCalls == 2

\* ------------------------------------------------------------- matrices
\* Matrix is Eigen's dense float matrix.  The values used are small integers,
\* which floats hold and subtract exactly.
Positions(r, c) == (1..r) \X (1..c)

\* A matrix filled with one value.
Fill(r, c, v) == [rows |-> r, cols |-> c, at |-> [p \in Positions(r, c) |-> v]]

\* A matrix whose elements all differ: 1, 2, ... row by row.
Ramp(r, c) ==
    [rows |-> r, cols |-> c,
     at |-> [p \in Positions(r, c) |-> (p[1] - 1) * c + p[2]]]

\* The matrices the engine may bind to a port.
Matrices ==
    {Fill(r, c, v) : r \in 1..MaxRows, c \in 1..MaxCols, v \in 0..MaxVal}
        \cup {Ramp(r, c) : r \in 1..MaxRows, c \in 1..MaxCols}

\* `new Matrix()`: a matrix of no rows and no columns.
NewMatrix == [rows |-> 0, cols |-> 0, at |-> [p \in Positions(0, 0) |-> 0]]

\* Eigen's a - b, element by element.  Defined for operands of one shape, the
\* only case Process evaluates it in.
MatSub(a, b) ==
    [rows |-> a.rows, cols |-> a.cols,
     at |-> [p \in Positions(a.rows, a.cols) |-> a.at[p] - b.at[p]]]

\* ------------------------------------------------------------- statuses
OkStatus == [code |-> "OK", msg |-> ""]

InvalidArgumentError(m) == [code |-> "INVALID_ARGUMENT", msg |-> m]

\* A failed CHECK of the framework: the process aborts.
CheckFailure == [code |-> "ABORTED", msg |-> "tag not found"]

CardinalityMsg ==
    "MatrixSubtractCalculator only accepts exactly one input stream and one input side packet"

TagMsg == "Must specify exactly one minuend and one subtrahend."

DimensionMsg == "Input matrix and the input side matrix must have the same dimension."

\* ------------------------------------------------------------- collections
\* A port collection is the sequence of the tags of its entries ("" for an
\* untagged entry); the packets bound to it are a sequence of the same length.
Tags == {"MINUEND", "SUBTRAHEND", "OTHER", ""}

Collections == UNION {[1..n -> Tags] : n \in 0..MaxPorts}

NumEntries(coll) == Len(coll)

HasTag(coll, tag) == \E i \in 1..Len(coll) : coll[i] = tag

\* Tag(tag): the first entry carrying the tag (index 0 of the tag).
Tag(coll, vals, tag) ==
    vals[CHOOSE i \in 1..Len(coll) :
            coll[i] = tag /\ \A j \in 1..(i - 1) : coll[j] # tag]

\* ------------------------------------------------------------- state
VARIABLES
    input_tags,            \* cc->Inputs(): the tags of the node's input streams
    side_tags,             \* cc->InputSidePackets(): the tags of its side packets
    pc,                    \* where the engine is in the node's life
    contract_status,       \* what GetContract returned
    typed,                 \* the ports GetContract declared as Matrix
    offset,                \* the timestamp offset declared by Open
    subtract_from_input_,  \* the role: TRUE iff the streamed matrix is the minuend
    side_values,           \* the matrices bound to the side packets
    input,                 \* the packets at the input streams and their timestamp
    output,                \* cc->Outputs().Index(0): the packets added so far
    last_status,           \* what the last Process returned
    leaked,                \* matrices Process allocated that nobody owns or freed
    calls                  \* log of the Process invocations

vars ==
    <<input_tags, side_tags, pc, contract_status, typed, offset,
      subtract_from_input_, side_values, input, output, last_status, leaked, calls>>

NoStatus == [code |-> "NONE", msg |-> ""]

NoPacket == [ts |-> -1, vals |-> <<>>]

\* ------------------------------------------------------------- GetContract
\* A wrong GetContract: `||` for `&&` in the two tag tests.
ContractForEitherTag(ins, sides) ==
    IF NumEntries(ins) # 1 \/ NumEntries(sides) # 1
    THEN [status |-> InvalidArgumentError(CardinalityMsg), typed |-> {}]
    ELSE IF HasTag(ins, "MINUEND") \/ HasTag(sides, "SUBTRAHEND")
    THEN [status |-> OkStatus,
          typed |-> {<<"in", "MINUEND">>, <<"side", "SUBTRAHEND">>, <<"out", "">>}]
    ELSE IF HasTag(ins, "SUBTRAHEND") \/ HasTag(sides, "MINUEND")
    THEN [status |-> OkStatus,
          typed |-> {<<"in", "SUBTRAHEND">>, <<"side", "MINUEND">>, <<"out", "">>}]
    ELSE [status |-> InvalidArgumentError(TagMsg), typed |-> {}]

\* A wrong GetContract: the tags are tested before the number of entries.
ContractForTagsFirst(ins, sides) ==
    IF ~(HasTag(ins, "MINUEND") /\ HasTag(sides, "SUBTRAHEND"))
       /\ ~(HasTag(ins, "SUBTRAHEND") /\ HasTag(sides, "MINUEND"))
    THEN [status |-> InvalidArgumentError(TagMsg), typed |-> {}]
    ELSE IF NumEntries(ins) # 1 \/ NumEntries(sides) # 1
    THEN [status |-> InvalidArgumentError(CardinalityMsg), typed |-> {}]
    ELSE IF HasTag(ins, "MINUEND")
    THEN [status |-> OkStatus,
          typed |-> {<<"in", "MINUEND">>, <<"side", "SUBTRAHEND">>, <<"out", "">>}]
    ELSE [status |-> OkStatus,
          typed |-> {<<"in", "SUBTRAHEND">>, <<"side", "MINUEND">>, <<"out", "">>}]

\* GetContract on the collections ins and sides: the status it returns and the
\* ports it has declared as Matrix when it returns.
ContractFor(ins, sides) ==
    IF NumEntries(ins) # 1 \/ NumEntries(sides) # 1
    THEN [status |-> InvalidArgumentError(CardinalityMsg), typed |-> {}]
    ELSE IF HasTag(ins, "MINUEND") /\ HasTag(sides, "SUBTRAHEND")
    THEN [status |-> OkStatus,
          typed |-> {<<"in", "MINUEND">>, <<"side", "SUBTRAHEND">>, <<"out", "">>}]
    ELSE IF HasTag(ins, "SUBTRAHEND") /\ HasTag(sides, "MINUEND")
    THEN [status |-> OkStatus,
          typed |-> {<<"in", "SUBTRAHEND">>, <<"side", "MINUEND">>, <<"out", "">>}]
    ELSE [status |-> InvalidArgumentError(TagMsg), typed |-> {}]

\* ------------------------------------------------------------- Open
\* A wrong Open: the role is never set and keeps its initial value.
OpenRoleUnset(ins, prior) == prior

\* The value of subtract_from_input_ when Open returns; prior is its value
\* before.
OpenRole(ins, prior) == IF HasTag(ins, "MINUEND") THEN TRUE ELSE prior

\* ------------------------------------------------------------- Process
\* The tags Process looks up under a role.
StreamTagRead(role) == IF role THEN "MINUEND" ELSE "SUBTRAHEND"

SideTagRead(role) == IF role THEN "SUBTRAHEND" ELSE "MINUEND"

\* The shape test of Process.
DimensionsDiffer(input_matrix, side_input_matrix) ==
    \/ input_matrix.rows # side_input_matrix.rows
    \/ input_matrix.cols # side_input_matrix.cols

\* What Process returns when the shapes differ.  The wrong one skips the
\* packet and reports success.
DimensionSkipped == OkStatus

DimensionError == InvalidArgumentError(DimensionMsg)

\* A wrong subtraction: the second branch copied from the first.
SubtractedOneWay(role, input_matrix, side_input_matrix) ==
    MatSub(input_matrix, side_input_matrix)

\* A wrong subtraction: the operands of the two branches exchanged.
SubtractedSwapped(role, input_matrix, side_input_matrix) ==
    IF role
    THEN MatSub(side_input_matrix, input_matrix)
    ELSE MatSub(input_matrix, side_input_matrix)

\* The value assigned to *subtracted.
Subtracted(role, input_matrix, side_input_matrix) ==
    IF role
    THEN MatSub(input_matrix, side_input_matrix)
    ELSE MatSub(side_input_matrix, input_matrix)

\* A wrong Add: the packet is stamped with the next timestamp.
OutputsAddNext(out, m, ts) == Append(out, [ts |-> ts + 1, m |-> m])

\* cc->Outputs().Index(0).Add(m, ts): the stream takes the matrix over.
OutputsAdd(out, m, ts) == Append(out, [ts |-> ts, m |-> m])

\* A wrong Process: the (still empty) result is added before the shape test
\* returns.
ProcessResultEmitsFirst(role, ins, in_vals, sides, side_vals, ts, out) ==
    IF ~HasTag(ins, StreamTagRead(role)) \/ ~HasTag(sides, SideTagRead(role))
    THEN [status |-> CheckFailure, out |-> out, orphaned |-> 1]
    ELSE LET input_matrix == Tag(ins, in_vals, StreamTagRead(role))
             side_input_matrix == Tag(sides, side_vals, SideTagRead(role))
         IN  IF DimensionsDiffer(input_matrix, side_input_matrix)
             THEN [status |-> DimensionError,
                   out |-> OutputsAdd(out, NewMatrix, ts), orphaned |-> 0]
             ELSE [status |-> OkStatus,
                   out |-> OutputsAdd(out,
                              Subtracted(role, input_matrix, side_input_matrix), ts),
                   orphaned |-> 0]

\* Process under a role, on the packets in_vals (timestamp ts) of the input
\* collection ins and side_vals of the side collection sides, with out the
\* output stream so far: the status returned, the output stream after, and the
\* number of matrices allocated (line 95) that Process neither handed to the
\* output stream nor deleted.  A Tag() of an absent tag fails a CHECK.
ProcessResult(role, ins, in_vals, sides, side_vals, ts, out) ==
    IF ~HasTag(ins, StreamTagRead(role)) \/ ~HasTag(sides, SideTagRead(role))
    THEN [status |-> CheckFailure, out |-> out, orphaned |-> 1]
    ELSE LET input_matrix == Tag(ins, in_vals, StreamTagRead(role))
             side_input_matrix == Tag(sides, side_vals, SideTagRead(role))
         IN  IF DimensionsDiffer(input_matrix, side_input_matrix)
             THEN [status |-> DimensionError, out |-> out, orphaned |-> 1]
             ELSE [status |-> OkStatus,
                   out |-> OutputsAdd(out,
                              Subtracted(role, input_matrix, side_input_matrix), ts),
                   orphaned |-> 0]

\* ------------------------------------------------------------- engine
\* The engine after a Process: a status other than OK fails the run, and no
\* further packet is delivered to the node.
EngineAfterProcess(status) ==
    IF status.code = "OK" THEN "ready"
    ELSE IF status.code = "ABORTED" THEN "aborted" ELSE "failed"

\* ------------------------------------------------------------- actions
\* A node of some configuration, before the graph is built.
Init ==
    /\ input_tags \in Collections
    /\ side_tags \in Collections
    /\ pc = "declared"
    /\ contract_status = NoStatus
    /\ typed = {}
    /\ offset = -1
    /\ subtract_from_input_ = FALSE
    /\ side_values = <<>>
    /\ input = NoPacket
    /\ output = <<>>
    /\ last_status = NoStatus
    /\ leaked = 0
    /\ calls = <<>>

\* The graph is built: GetContract is called on the node's configuration.
GetContract ==
    /\ pc = "declared"
    /\ LET c == ContractFor(input_tags, side_tags)
       IN  /\ contract_status' = c.status
           /\ typed' = c.typed
           /\ pc' = IF c.status.code = "OK" THEN "contracted" ELSE "rejected"
    /\ UNCHANGED <<input_tags, side_tags, offset, subtract_from_input_,
                   side_values, input, output, last_status, leaked, calls>>

\* The run starts: the side packets are bound and Open is called.
Open ==
    /\ pc = "contracted"
    /\ \E sv \in [1..Len(side_tags) -> Matrices] : side_values' = sv
    /\ offset' = 0
    /\ subtract_from_input_' = OpenRole(input_tags, subtract_from_input_)
    /\ pc' = "ready"
    /\ UNCHANGED <<input_tags, side_tags, contract_status, typed, input,
                   output, last_status, leaked, calls>>

\* The engine delivers the next input packets, at a later timestamp than the
\* last ones.
Deliver ==
    /\ pc = "ready"
    /\ Len(calls) < MaxCalls
    /\ \E t \in 0..MaxTs, iv \in [1..Len(input_tags) -> Matrices] :
          /\ t > input.ts
          /\ input' = [ts |-> t, vals |-> iv]
    /\ pc' = "process"
    /\ UNCHANGED <<input_tags, side_tags, contract_status, typed, offset,
                   subtract_from_input_, side_values, output, last_status,
                   leaked, calls>>

\* What a call of Process does to the output stream, to the heap and to the
\* engine; the call is logged.
ProcessCall ==
    /\ pc = "process"
    /\ LET r == ProcessResult(subtract_from_input_, input_tags, input.vals,
                              side_tags, side_values, input.ts, output)
       IN  /\ output' = r.out
           /\ leaked' = leaked + r.orphaned
           /\ last_status' = r.status
           /\ pc' = EngineAfterProcess(r.status)
           /\ calls' = Append(calls, [ts |-> input.ts, streamed |-> input.vals,
                                      side |-> side_values,
                                      role |-> subtract_from_input_,
                                      status |-> r.status])

\* A wrong Process: the difference is computed in place, in the input packet.
ProcessInPlace ==
    /\ ProcessCall
    /\ input' = [input EXCEPT !.vals =
                    [i \in 1..Len(input.vals) |->
                        IF last_status'.code = "OK" THEN output'[Len(output')].m
                        ELSE input.vals[i]]]
    /\ UNCHANGED <<input_tags, side_tags, contract_status, typed, offset,
                   subtract_from_input_, side_values>>

\* Process is called on the delivered packets.
Process ==
    /\ ProcessCall
    /\ UNCHANGED <<input_tags, side_tags, contract_status, typed, offset,
                   subtract_from_input_, side_values, input>>

Next == GetContract \/ Open \/ Deliver \/ Process

Spec == Init /\ [][Next]_vars

\* ------------------------------------------------------------- properties
\* The node has been through GetContract and Open.
Opened == pc \in {"ready", "process", "failed", "aborted"}

\* The matrices of the i-th invocation: the one streamed in and the side one
\* (an accepted configuration has one entry of each).
StreamedOf(i) == calls[i].streamed[1]

SideOf(i) == calls[i].side[1]

Succeeded(i) == calls[i].status.code = "OK"

\* The number of successful invocations among the first i.
OkCount(i) == Cardinality({j \in 1..i : Succeeded(j)})

SameShape(a, b) == a.rows = b.rows /\ a.cols = b.cols

\* The configuration has one input stream and one side packet.
OneAndOne == Len(input_tags) = 1 /\ Len(side_tags) = 1

\* C1: GetContract returns OK if and only if the configuration has exactly one
\* input stream and exactly one side packet and their tags are MINUEND and
\* SUBTRAHEND, one each; for every other configuration it returns the
\* invalid-argument error.
ContractValidity ==
    pc # "declared" =>
        IF /\ OneAndOne
           /\ \/ input_tags[1] = "MINUEND" /\ side_tags[1] = "SUBTRAHEND"
              \/ input_tags[1] = "SUBTRAHEND" /\ side_tags[1] = "MINUEND"
        THEN contract_status.code = "OK" /\ pc # "rejected"
        ELSE contract_status.code = "INVALID_ARGUMENT" /\ pc = "rejected"

\* One stream and one side packet, both tagged MINUEND, have been rejected.
ContractValidityWitness ==
    /\ pc = "rejected"
    /\ OneAndOne
    /\ input_tags[1] = "MINUEND"
    /\ side_tags[1] = "MINUEND"

\* C7: whenever the configuration does not have exactly one input stream and
\* one side packet, GetContract returns the cardinality error whatever the
\* tags are; it returns the tag error only when there is one of each.
CardinalityBeforeTags ==
    pc # "declared" =>
        /\ ~OneAndOne => contract_status = InvalidArgumentError(CardinalityMsg)
        /\ contract_status.msg = TagMsg => OneAndOne
        /\ contract_status.msg = CardinalityMsg => ~OneAndOne

\* Two streams and one side packet with complementary tags have been rejected
\* for their number.
CardinalityBeforeTagsWitness ==
    /\ pc = "rejected"
    /\ Len(input_tags) = 2
    /\ Len(side_tags) = 1
    /\ input_tags[1] = "MINUEND"
    /\ side_tags[1] = "SUBTRAHEND"
    /\ contract_status.msg = CardinalityMsg

\* C2: every successful invocation emits streamed - side when the input
\* stream is tagged MINUEND and side - streamed when it is tagged SUBTRAHEND,
\* whatever its place in the sequence of invocations.
RoleFixation ==
    \A i \in 1..Len(calls) :
        Succeeded(i) =>
            /\ OkCount(i) <= Len(output)
            /\ LET m == output[OkCount(i)].m
                   a == StreamedOf(i)
                   b == SideOf(i)
               IN  /\ m.rows = a.rows
                   /\ m.cols = a.cols
                   /\ DOMAIN m.at = Positions(a.rows, a.cols)
                   /\ \A p \in Positions(a.rows, a.cols) :
                         m.at[p] = IF input_tags[1] = "MINUEND"
                                   THEN a.at[p] - b.at[p]
                                   ELSE b.at[p] - a.at[p]

\* Two invocations have succeeded on a node whose stream is the subtrahend,
\* the second on a matrix that differs from the side matrix.
RoleFixationWitness ==
    /\ Len(calls) = 2
    /\ Succeeded(1)
    /\ Succeeded(2)
    /\ input_tags[1] = "SUBTRAHEND"
    /\ StreamedOf(2) = Ramp(2, 2)
    /\ SideOf(2) = Fill(2, 2, 1)

\* C3: an invocation on matrices of one shape succeeds and emits a matrix of
\* that shape; an invocation on matrices that differ in rows or in columns
\* returns the dimension error and adds nothing at its timestamp.
ShapeInvariant ==
    \A i \in 1..Len(calls) :
        IF SameShape(StreamedOf(i), SideOf(i))
        THEN /\ Succeeded(i)
             /\ OkCount(i) <= Len(output)
             /\ output[OkCount(i)].ts = calls[i].ts
             /\ SameShape(output[OkCount(i)].m, StreamedOf(i))
        ELSE /\ calls[i].status = InvalidArgumentError(DimensionMsg)
             /\ \A k \in 1..Len(output) : output[k].ts # calls[i].ts

\* An invocation has failed on matrices of equal rows and different columns,
\* on a node whose stream is the minuend.
ShapeInvariantWitness ==
    /\ Len(calls) >= 1
    /\ subtract_from_input_
    /\ last_status = InvalidArgumentError(DimensionMsg)
    /\ StreamedOf(Len(calls)).rows = SideOf(Len(calls)).rows
    /\ StreamedOf(Len(calls)).cols # SideOf(Len(calls)).cols

\* C4: the output stream holds one packet per successful invocation and none
\* for a failed one, in the order of the invocations, each with the timestamp
\* of the input that triggered it; the declared offset is 0.
TimestampPropagation ==
    /\ Opened => offset = 0
    /\ Len(output) = OkCount(Len(calls))
    /\ \A i \in 1..Len(calls) :
          Succeeded(i) => output[OkCount(i)].ts = calls[i].ts
    /\ \A k \in 1..(Len(output) - 1) : output[k].ts < output[k + 1].ts

\* Two packets have been emitted, at timestamps 0 and 2.
TimestampPropagationWitness ==
    /\ Len(output) = 2
    /\ output[1].ts = 0
    /\ output[2].ts = 2

\* C5: an invocation on matrices of different shape is the last one: the run
\* is failed, no later invocation is logged and the output stream holds only
\* the packets of the invocations before it.
FailureIsFatal ==
    \A i \in 1..Len(calls) :
        ~SameShape(StreamedOf(i), SideOf(i)) =>
            /\ i = Len(calls)
            /\ pc = "failed"
            /\ ~ENABLED Deliver
            /\ ~ENABLED Process
            /\ Len(output) = i - 1

\* The first invocation has failed, with invocations and timestamps to spare.
FailureIsFatalWitness ==
    /\ pc = "failed"
    /\ Len(calls) = 1
    /\ Len(calls) < MaxCalls
    /\ input.ts < MaxTs
    /\ last_status = InvalidArgumentError(DimensionMsg)

\* C6: a call of Process leaves the role, the input packets, the side packets
\* and the contract as they were, and the role it read is the one Open set:
\* TRUE iff the input stream has the tag MINUEND.
ProcessFrame ==
    [][pc = "process" =>
          /\ UNCHANGED <<subtract_from_input_, input, side_values, input_tags,
                         side_tags, typed, offset, contract_status>>
          /\ calls'[Len(calls')].role = HasTag(input_tags, "MINUEND")
          /\ \A i \in 1..Len(calls) : calls'[i] = calls[i]]_vars

\* A second invocation has succeeded after a first one, with a difference
\* that is not the streamed matrix.
ProcessFrameWitness ==
    /\ Len(calls) = 2
    /\ Succeeded(1)
    /\ Succeeded(2)
    /\ output[2].m # StreamedOf(2)
    /\ pc = "ready"

\* The output of a node with the given stream and side tags, opened and run
\* once on the streamed matrix a and the side matrix b.
NodeOutput(stream_tag, side_tag, a, b) ==
    ProcessResult(OpenRole(<<stream_tag>>, FALSE), <<stream_tag>>, <<a>>,
                  <<side_tag>>, <<b>>, 0, <<>>).out

\* C8: for the matrices A (streamed) and B (side) of a successful invocation,
\* a node whose stream is tagged MINUEND emits A - B, a node whose stream is
\* tagged SUBTRAHEND emits B - A, and the second is the negation of the first,
\* element by element.
AntiCommutativity ==
    \A i \in 1..Len(calls) :
        Succeeded(i) =>
            LET a == StreamedOf(i)
                b == SideOf(i)
                d1 == NodeOutput("MINUEND", "SUBTRAHEND", a, b)
                d2 == NodeOutput("SUBTRAHEND", "MINUEND", a, b)
            IN  /\ Len(d1) = 1
                /\ Len(d2) = 1
                /\ SameShape(d1[1].m, a)
                /\ SameShape(d2[1].m, a)
                /\ \A p \in Positions(a.rows, a.cols) :
                      /\ d1[1].m.at[p] = a.at[p] - b.at[p]
                      /\ d2[1].m.at[p] = b.at[p] - a.at[p]
                      /\ d2[1].m.at[p] = 0 - d1[1].m.at[p]
                /\ output[OkCount(i)].m \in {d1[1].m, d2[1].m}

\* An invocation has succeeded on two matrices whose difference is not zero
\* everywhere nor the same everywhere.
AntiCommutativityWitness ==
    /\ Len(calls) >= 1
    /\ Succeeded(1)
    /\ StreamedOf(1) = Ramp(2, 2)
    /\ SideOf(1) = Fill(2, 2, 1)
    /\ output[1].m.at[<<1, 1>>] # output[1].m.at[<<2, 2>>]

\* C9: every result matrix Process has allocated has been handed to the
\* output stream or freed: none is owned by nobody.
NoOrphanedResult == leaked = 0

\* C10: on an opened node the role is TRUE iff the stream has the tag MINUEND,
\* the two tags Process looks up under that role exist in the configuration
\* and were declared as Matrix by GetContract, and no invocation has failed a
\* tag lookup.
PhasesAgree ==
    Opened =>
        /\ subtract_from_input_ = HasTag(input_tags, "MINUEND")
        /\ subtract_from_input_ =>
              /\ HasTag(input_tags, "MINUEND")
              /\ HasTag(side_tags, "SUBTRAHEND")
              /\ {<<"in", "MINUEND">>, <<"side", "SUBTRAHEND">>} \subseteq typed
        /\ ~subtract_from_input_ =>
              /\ HasTag(input_tags, "SUBTRAHEND")
              /\ HasTag(side_tags, "MINUEND")
              /\ {<<"in", "SUBTRAHEND">>, <<"side", "MINUEND">>} \subseteq typed
        /\ <<"in", StreamTagRead(subtract_from_input_)>> \in typed
        /\ <<"side", SideTagRead(subtract_from_input_)>> \in typed
        /\ <<"out", "">> \in typed
        /\ pc # "aborted"
        /\ \A i \in 1..Len(calls) : calls[i].status.code # "ABORTED"

\* A node whose stream is the subtrahend has been opened and has run once.
PhasesAgreeWitness ==
    /\ pc = "ready"
    /\ ~subtract_from_input_
    /\ Len(calls) = 1
    /\ Succeeded(1)

====
